---- MODULE Spec2Model ----
(***************************************************************************)
(* Punktezettel generator (src/app.py).                                    *)
(*                                                                         *)
(* Three parts of the program are modelled:                                *)
(*   - the editor helpers that mutate st.session_state.aufgaben            *)
(*     (_init_state .. _sync_descriptions and the description inputs),     *)
(*   - build_mappe_sheet: the column layout (phase 1 / phase 2) and the    *)
(*     cells of rows 4, 5, 6 and of the student rows,                      *)
(*   - generate_excel / build_studenten_sheet: the split of the roster     *)
(*     into Mappen and the overview rows.                                  *)
(* Fonts, fills, borders, widths and the label rows 1-3 carry no data the  *)
(* layout or the formulas depend on and are left out.                      *)
(***************************************************************************)
EXTENDS Integers, Sequences, FiniteSets, TLC

VARIABLES
    aufgaben,          \* st.session_state.aufgaben / the aufgaben argument
    students,          \* the roster (students / students_in_mappe argument)
    studis_pro_mappe,  \* the studis_pro_mappe argument
    wb,                \* the workbook built by the last call
    outcome            \* "idle", "ok", or the name of the exception raised

vars == <<aufgaben, students, studis_pro_mappe, wb, outcome>>

---------------------------------------------------------------------------
\* Bounds of the model.
MaxAufgaben == 2          \* tasks in a configuration
MaxTeilaufgaben == 3      \* subtasks in a configuration, over all tasks
MaxPunkte == 4            \* largest point count (the number_input allows 50)
MaxTexts == 1             \* non-empty descriptions in a configuration
MaxStudentsInMappe == 2   \* students handed directly to build_mappe_sheet
MaxStudents == 8          \* roster length handed to generate_excel
MaxCap == 3               \* |studis_pro_mappe| handed to generate_excel

\* Program constants.
DefaultPunkte == 4        \* "punkte": 4 of a new Teilaufgabe
MinPunkte == 1            \* number_input min_value
FirstSumCol == 6          \* col = 6, "starting at column F"
HeaderRow == 4
MaxRow == 5               \* "Maximale Punkte"
AvgRow == 6               \* "Durchschnittliche Punkte"
first_data_row == 7
AlphabetLen == 26

Texts == {"", "x"}

---------------------------------------------------------------------------
\* Generic helpers.
Min(a, b) == IF a < b THEN a ELSE b
Max(a, b) == IF a > b THEN a ELSE b

RECURSIVE SumSeq(_)
SumSeq(s) == IF s = <<>> THEN 0 ELSE Head(s) + SumSeq(Tail(s))

RECURSIVE Flatten(_)
Flatten(ss) == IF ss = <<>> THEN <<>> ELSE Head(ss) \o Flatten(Tail(ss))

\* list.pop(idx) for 0 <= idx < len(list) (idx is 0-based)
Pop(s, idx) == [i \in 1..(Len(s) - 1) |-> IF i <= idx THEN s[i] ELSE s[i + 1]]

\* [""] * n
Blanks(n) == [i \in 1..n |-> ""]

\* old[:k] for 0 <= k
Prefix(s, k) == [i \in 1..Min(k, Len(s)) |-> s[i]]

\* Python's floor division and modulo (the sign of the result follows the divisor)
PyFloorDiv(a, b) == IF b > 0 THEN a \div b ELSE (-a) \div (-b)
PyMod(a, b) == a - b * PyFloorDiv(a, b)

\* math.ceil(a / b) for b # 0
PyCeilDiv(a, b) == -PyFloorDiv(-a, b)

---------------------------------------------------------------------------
\* Column letters (openpyxl.utils.get_column_letter) and cell values.

Uppercase == <<"A", "B", "C", "D", "E", "F", "G", "H", "I", "J", "K", "L", "M",
               "N", "O", "P", "Q", "R", "S", "T", "U", "V", "W", "X", "Y", "Z">>
Lowercase == <<"a", "b", "c", "d", "e", "f", "g", "h", "i", "j", "k", "l", "m",
               "n", "o", "p", "q", "r", "s", "t", "u", "v", "w", "x", "y", "z">>

\* get_column_letter(col_idx), 1 <= col_idx: the letters of the column, most
\* significant first (1 -> A, 26 -> Z, 27 -> AA)
RECURSIVE get_column_letter(_)
get_column_letter(col_idx) ==
    IF col_idx <= 0 THEN <<>>
    ELSE LET remainder == col_idx % AlphabetLen
             quotient == col_idx \div AlphabetLen
         IN  IF remainder = 0
             THEN Append(get_column_letter(quotient - 1), Uppercase[AlphabetLen])
             ELSE Append(get_column_letter(quotient), Uppercase[remainder])

\* the cell values the sheets hold
TextCell(s) == [kind |-> "text", text |-> s]
NumCell(n) == [kind |-> "number", number |-> n]
StudentCell(student, field) == [kind |-> "student", student |-> student, field |-> field]
\* f"=SUM({c1}{r1}:{c2}{r2})"
SumFormula(c1, r1, c2, r2) == [kind |-> "SUM", c1 |-> c1, r1 |-> r1, c2 |-> c2, r2 |-> r2]
\* f'=IFERROR(AVERAGE({c1}{r1}:{c2}{r2}),"")'
AverageFormula(c1, r1, c2, r2) ==
    [kind |-> "IFERROR(AVERAGE)", c1 |-> c1, r1 |-> r1, c2 |-> c2, r2 |-> r2, otherwise |-> ""]

\* Workbook() before any sheet is filled
EmptyWb == [studenten |-> <<>>, mappen |-> <<>>]

\* ws.cell(row=r, column=c, value=v)
Write(r, c, v) == [row |-> r, col |-> c, value |-> v]

---------------------------------------------------------------------------
\* build_mappe_sheet: column positions.

\* Phase 1: the SUM blocks (SS + S columns), one per Aufgabe, from column `col` on
RECURSIVE Phase1(_, _)
Phase1(cfg, col) ==
    IF cfg = <<>> THEN [layouts |-> <<>>, col |-> col]
    ELSE LET aufgabe == Head(cfg)
             teil_punkte == [t \in 1..Len(aufgabe.teilaufgaben) |-> aufgabe.teilaufgaben[t].punkte]
             n_teil == Len(teil_punkte)
             sum_block_end == col + n_teil
             lay == [teil_punkte |-> teil_punkte,
                     teil_descriptions |->
                         [t \in 1..n_teil |-> aufgabe.teilaufgaben[t].descriptions],
                     n_teil |-> n_teil,
                     ss_col |-> col,
                     s_cols |-> [t \in 1..n_teil |-> col + 1 + (t - 1)],
                     sum_block_end |-> sum_block_end,
                     teil_point_starts |-> <<>>]
             rest == Phase1(Tail(cfg), sum_block_end + 1)
         IN  [layouts |-> <<lay>> \o rest.layouts, col |-> rest.col]

\* PointStarts with the cursor advanced one column short (col += pts - 1)
RECURSIVE PointStartsShort(_, _)
PointStartsShort(teil_punkte, col) ==
    IF teil_punkte = <<>> THEN <<>>
    ELSE <<col>> \o PointStartsShort(Tail(teil_punkte), col + Head(teil_punkte) - 1)

\* the inner loop of phase 2: one start per Teilaufgabe, col += pts
RECURSIVE PointStarts(_, _)
PointStarts(teil_punkte, col) ==
    IF teil_punkte = <<>> THEN <<>>
    ELSE <<col>> \o PointStarts(Tail(teil_punkte), col + Head(teil_punkte))

\* Phase 2: the point columns of every Aufgabe, after all SUM blocks
RECURSIVE Phase2(_, _)
Phase2(layouts, col) ==
    IF layouts = <<>> THEN <<>>
    ELSE LET lay == Head(layouts)
         IN  <<[lay EXCEPT !.teil_point_starts = PointStarts(lay.teil_punkte, col)]>>
             \o Phase2(Tail(layouts), col + SumSeq(lay.teil_punkte))

\* ComputeLayouts with phase 2 starting over at the first SUM column
ComputeLayoutsRestart(cfg) ==
    Phase2(Phase1(cfg, FirstSumCol).layouts, FirstSumCol)

\* ComputeLayouts with phase 1 starting one column early, on column E
ComputeLayoutsFromE(cfg) ==
    LET p1 == Phase1(cfg, FirstSumCol - 1)
    IN  Phase2(p1.layouts, p1.col)

\* aufgabe_layouts after both phases
ComputeLayouts(cfg) ==
    LET p1 == Phase1(cfg, FirstSumCol)
    IN  Phase2(p1.layouts, p1.col)

---------------------------------------------------------------------------
\* build_mappe_sheet: the cells of rows 4, 5, 6 and of the student rows, in
\* the order the code writes them.

StyledOnly == [kind |-> "empty"]

\* TaskSum with the range running on to the last point column of the Aufgabe
TaskSumOverPoints(lay, r) ==
    SumFormula(get_column_letter(lay.s_cols[1]), r,
               get_column_letter(lay.teil_point_starts[lay.n_teil]
                                 + lay.teil_punkte[lay.n_teil] - 1), r)

\* the SS formula of one Aufgabe at row r: SUM over its S columns
TaskSum(lay, r) ==
    SumFormula(get_column_letter(lay.s_cols[1]), r,
               get_column_letter(lay.s_cols[Len(lay.s_cols)]), r)

\* SubtaskSum with the range ending one column late (start + pts)
SubtaskSumOneMore(lay, t, r) ==
    SumFormula(get_column_letter(lay.teil_point_starts[t]), r,
               get_column_letter(lay.teil_point_starts[t] + lay.teil_punkte[t]), r)

\* the S formula of Teilaufgabe t at row r: SUM over its point columns
SubtaskSum(lay, t, r) ==
    SumFormula(get_column_letter(lay.teil_point_starts[t]), r,
               get_column_letter(lay.teil_point_starts[t] + lay.teil_punkte[t] - 1), r)

\* the point columns of Teilaufgabe t: teil_point_starts[t] + p for p in range(pts)
PointCols(lay, t) ==
    [p \in 1..Max(lay.teil_punkte[t], 0) |-> lay.teil_point_starts[t] + (p - 1)]

\* Row 4: column headers
Row4Identity ==
    << Write(HeaderRow, 1, TextCell("Nr")), Write(HeaderRow, 2, TextCell("Matr-Nr")),
       Write(HeaderRow, 3, TextCell("Nachname")), Write(HeaderRow, 4, TextCell("Vorname")),
       Write(HeaderRow, 5, StyledOnly) >>

Row4Lay(lay) ==
    <<Write(HeaderRow, lay.ss_col, TextCell("SS"))>> \o
    Flatten([t \in 1..lay.n_teil |->
        <<Write(HeaderRow, lay.s_cols[t], TextCell("S"))>> \o
        [p \in 1..Len(PointCols(lay, t)) |->
            Write(HeaderRow, PointCols(lay, t)[p],
                  TextCell(Lowercase[((p - 1) % AlphabetLen) + 1]))]])

\* Row 5 with the point count of the Teilaufgabe in every point column
Row5LayPunkte(lay) ==
    <<Write(MaxRow, lay.ss_col, TaskSum(lay, MaxRow))>> \o
    Flatten([t \in 1..lay.n_teil |->
        <<Write(MaxRow, lay.s_cols[t], SubtaskSum(lay, t, MaxRow))>> \o
        [p \in 1..Len(PointCols(lay, t)) |->
            Write(MaxRow, PointCols(lay, t)[p], NumCell(lay.teil_punkte[t]))]])

\* Row 5: maximale Punkte
Row5Lay(lay) ==
    <<Write(MaxRow, lay.ss_col, TaskSum(lay, MaxRow))>> \o
    Flatten([t \in 1..lay.n_teil |->
        <<Write(MaxRow, lay.s_cols[t], SubtaskSum(lay, t, MaxRow))>> \o
        [p \in 1..Len(PointCols(lay, t)) |->
            Write(MaxRow, PointCols(lay, t)[p], NumCell(1))]])

\* the loop over aufgabe_layouts of row 5; lay['s_cols'][0] raises IndexError
\* for an Aufgabe without Teilaufgaben, and the loop ends there
RECURSIVE Row5Loop(_)
Row5Loop(layouts) ==
    IF layouts = <<>> THEN [writes |-> <<>>, raised |-> FALSE]
    ELSE IF Head(layouts).n_teil = 0 THEN [writes |-> <<>>, raised |-> TRUE]
    ELSE LET rest == Row5Loop(Tail(layouts))
         IN  [writes |-> Row5Lay(Head(layouts)) \o rest.writes, raised |-> rest.raised]

\* Row 6: durchschnittliche Punkte
Row6Lay(lay, last_data_row) ==
    <<Write(AvgRow, lay.ss_col, TaskSum(lay, AvgRow))>> \o
    Flatten([t \in 1..lay.n_teil |->
        <<Write(AvgRow, lay.s_cols[t], SubtaskSum(lay, t, AvgRow))>> \o
        [p \in 1..Len(PointCols(lay, t)) |->
            LET pc_l == get_column_letter(PointCols(lay, t)[p])
            IN  Write(AvgRow, PointCols(lay, t)[p],
                      AverageFormula(pc_l, first_data_row, pc_l, last_data_row))]])

\* one student row
StudentRow(layouts, s_idx, student) ==
    LET r == first_data_row + s_idx
    IN  << Write(r, 1, NumCell(s_idx)),
           Write(r, 2, StudentCell(student, "Matr-Nr")),
           Write(r, 3, StudentCell(student, "Nachname")),
           Write(r, 4, StudentCell(student, "Vorname")) >> \o
        Flatten([a \in 1..Len(layouts) |->
            <<Write(r, layouts[a].ss_col, TaskSum(layouts[a], r))>> \o
            [t \in 1..layouts[a].n_teil |->
                Write(r, layouts[a].s_cols[t], SubtaskSum(layouts[a], t, r))]])

\* build_mappe_sheet(wb, sheet_name, aufgaben, students_in_mappe, mappe_nr, ...):
\* the sheet as far as it was built, and whether the call raised IndexError
build_mappe_sheet(cfg, students_in_mappe, mappe_nr) ==
    LET n_students == Len(students_in_mappe)
        layouts == ComputeLayouts(cfg)
        row4 == Row4Identity \o Flatten([a \in 1..Len(layouts) |-> Row4Lay(layouts[a])])
        row5 == Row5Loop(layouts)
        last_data_row == first_data_row + n_students - 1
        row6 == <<Write(AvgRow, 1, TextCell("Durchschnittliche Punkte"))>> \o
                Flatten([a \in 1..Len(layouts) |-> Row6Lay(layouts[a], last_data_row)])
        rows == Flatten([s \in 1..n_students |->
                    StudentRow(layouts, s - 1, students_in_mappe[s])])
        head == row4 \o <<Write(MaxRow, 1, TextCell("Maximale Punkte"))>> \o row5.writes
    IN  [title |-> <<"Mappe", mappe_nr>>,
         mappe_nr |-> mappe_nr,
         n_students |-> n_students,
         students |-> students_in_mappe,
         layouts |-> layouts,
         writes |-> IF row5.raised THEN head ELSE head \o row6 \o rows,
         raised |-> row5.raised]

---------------------------------------------------------------------------
\* The editor: session state helpers.

NewTeilaufgabe == [punkte |-> DefaultPunkte, descriptions |-> Blanks(DefaultPunkte)]
NewAufgabe == [teilaufgaben |-> <<NewTeilaufgabe, NewTeilaufgabe>>]

\* _init_state
InitAufgaben == <<NewAufgabe>>

TeilCount(cfg) == SumSeq([a \in 1..Len(cfg) |-> Len(cfg[a].teilaufgaben)])

\* total_points: the Gesamtpunkte shown before the download
total_points(cfg) ==
    SumSeq([a \in 1..Len(cfg) |->
        SumSeq([t \in 1..Len(cfg[a].teilaufgaben) |-> cfg[a].teilaufgaben[t].punkte])])

TextCount(cfg) ==
    SumSeq([a \in 1..Len(cfg) |->
        SumSeq([t \in 1..Len(cfg[a].teilaufgaben) |->
            Cardinality({p \in 1..Len(cfg[a].teilaufgaben[t].descriptions) :
                            cfg[a].teilaufgaben[t].descriptions[p] # ""})])])

\* _add_aufgabe()
AddAufgabeResult(cfg) == Append(cfg, NewAufgabe)

\* _remove_aufgabe without the len(...) > 1 test
RemoveAufgabeAlways(cfg, idx) == Pop(cfg, idx)

\* _remove_aufgabe(idx)
RemoveAufgabeResult(cfg, idx) == IF Len(cfg) > 1 THEN Pop(cfg, idx) ELSE cfg

\* _add_teilaufgabe(a_idx)
AddTeilaufgabeResult(cfg, a_idx) ==
    [cfg EXCEPT ![a_idx + 1].teilaufgaben = Append(@, NewTeilaufgabe)]

\* _remove_teilaufgabe(a_idx, t_idx)
RemoveTeilaufgabeResult(cfg, a_idx, t_idx) ==
    LET ta_list == cfg[a_idx + 1].teilaufgaben
    IN  IF Len(ta_list) > 1
        THEN [cfg EXCEPT ![a_idx + 1].teilaufgaben = Pop(ta_list, t_idx)]
        ELSE cfg

\* _sync_descriptions truncating from the front (old[-new_punkte:])
SyncDescriptionsKeepTail(cfg, a_idx, t_idx, new_punkte) ==
    LET ta == cfg[a_idx + 1].teilaufgaben[t_idx + 1]
        old == ta.descriptions
        descs == IF new_punkte > Len(old) THEN old \o Blanks(new_punkte - Len(old))
                 ELSE IF new_punkte < Len(old)
                      THEN [i \in 1..new_punkte |-> old[Len(old) - new_punkte + i]]
                 ELSE old
    IN  [cfg EXCEPT ![a_idx + 1].teilaufgaben[t_idx + 1] =
            [punkte |-> new_punkte, descriptions |-> descs]]

\* _sync_descriptions without the truncating branch
SyncDescriptionsGrowOnly(cfg, a_idx, t_idx, new_punkte) ==
    LET ta == cfg[a_idx + 1].teilaufgaben[t_idx + 1]
        old == ta.descriptions
        descs == IF new_punkte > Len(old) THEN old \o Blanks(new_punkte - Len(old)) ELSE old
    IN  [cfg EXCEPT ![a_idx + 1].teilaufgaben[t_idx + 1] =
            [punkte |-> new_punkte, descriptions |-> descs]]

\* _sync_descriptions(a_idx, t_idx, new_punkte)
SyncDescriptionsResult(cfg, a_idx, t_idx, new_punkte) ==
    LET ta == cfg[a_idx + 1].teilaufgaben[t_idx + 1]
        old == ta.descriptions
        descs == IF new_punkte > Len(old) THEN old \o Blanks(new_punkte - Len(old))
                 ELSE IF new_punkte < Len(old) THEN Prefix(old, new_punkte)
                 ELSE old
    IN  [cfg EXCEPT ![a_idx + 1].teilaufgaben[t_idx + 1] =
            [punkte |-> new_punkte, descriptions |-> descs]]

\* the description text_input of point p_idx: ta["descriptions"][p_idx] = new_desc
EditDescriptionResult(cfg, a_idx, t_idx, p_idx, new_desc) ==
    LET ta == cfg[a_idx + 1].teilaufgaben[t_idx + 1]
    IN  IF p_idx < Len(ta.descriptions)
        THEN [cfg EXCEPT ![a_idx + 1].teilaufgaben[t_idx + 1].descriptions[p_idx + 1] = new_desc]
        ELSE cfg

\* The helpers are called with every index in range, also where the page
\* would not show the button that calls them.
AufgabeIdx == 0..(Len(aufgaben) - 1)
TeilIdx(a_idx) == 0..(Len(aufgaben[a_idx + 1].teilaufgaben) - 1)

Idle == UNCHANGED <<students, studis_pro_mappe, wb, outcome>>

AddAufgabe ==
    /\ Len(aufgaben) < MaxAufgaben
    /\ TeilCount(aufgaben) + 2 <= MaxTeilaufgaben
    /\ aufgaben' = AddAufgabeResult(aufgaben)
    /\ Idle

RemoveAufgabe ==
    \E idx \in AufgabeIdx :
        /\ aufgaben' = RemoveAufgabeResult(aufgaben, idx)
        /\ Idle

AddTeilaufgabe ==
    \E a_idx \in AufgabeIdx :
        /\ TeilCount(aufgaben) < MaxTeilaufgaben
        /\ aufgaben' = AddTeilaufgabeResult(aufgaben, a_idx)
        /\ Idle

RemoveTeilaufgabe ==
    \E a_idx \in AufgabeIdx : \E t_idx \in TeilIdx(a_idx) :
        /\ aufgaben' = RemoveTeilaufgabeResult(aufgaben, a_idx, t_idx)
        /\ Idle

SyncDescriptions ==
    \E a_idx \in AufgabeIdx : \E t_idx \in TeilIdx(a_idx) :
    \E new_punkte \in MinPunkte..MaxPunkte :
        /\ aufgaben' = SyncDescriptionsResult(aufgaben, a_idx, t_idx, new_punkte)
        /\ Idle

EditDescription ==
    \E a_idx \in AufgabeIdx : \E t_idx \in TeilIdx(a_idx) :
    \E p_idx \in 0..(aufgaben[a_idx + 1].teilaufgaben[t_idx + 1].punkte - 1) :
    \E new_desc \in Texts :
        /\ aufgaben' = EditDescriptionResult(aufgaben, a_idx, t_idx, p_idx, new_desc)
        /\ TextCount(aufgaben') <= MaxTexts
        /\ Idle

InitEditor ==
    /\ aufgaben = InitAufgaben
    /\ students = <<>>
    /\ studis_pro_mappe = 1
    /\ wb = EmptyWb
    /\ outcome = "idle"

NextEditor ==
    \/ AddAufgabe
    \/ RemoveAufgabe
    \/ AddTeilaufgabe
    \/ RemoveTeilaufgabe
    \/ SyncDescriptions
    \/ EditDescription

SpecEditor == InitEditor /\ [][NextEditor]_vars

---------------------------------------------------------------------------
\* generate_excel and build_studenten_sheet.

\* students.iloc[start_idx:end_idx] for 0 <= start_idx
Slice(s, start_idx, end_idx) ==
    [i \in 1..(Min(end_idx, Len(s)) - start_idx) |-> s[start_idx + i]]

\* build_studenten_sheet counting the Stelle from 1 (idx % cap + 1)
StudentenSheetOneBased(roster, cap) ==
    [i \in 1..Len(roster) |->
        LET idx == i - 1
            mappe == PyFloorDiv(idx, cap) + 1
            stelle == PyMod(idx, cap) + 1
        IN  [row |-> idx + 2, mappe |-> mappe, stelle |-> stelle,
             code |-> <<mappe, "_", stelle>>, student |-> roster[i]]]

\* build_studenten_sheet: one overview row per student, in roster order
build_studenten_sheet(roster, cap) ==
    [i \in 1..Len(roster) |->
        LET idx == i - 1
            mappe == PyFloorDiv(idx, cap) + 1
            stelle == PyMod(idx, cap)
        IN  [row |-> idx + 2, mappe |-> mappe, stelle |-> stelle,
             code |-> <<mappe, "_", stelle>>, student |-> roster[i]]]

\* MappenCount rounding down (n_students // studis_pro_mappe)
MappenCountFloor(n_students, cap) == PyFloorDiv(n_students, cap)

\* n_mappen = math.ceil(n_students / studis_pro_mappe)
MappenCount(n_students, cap) == PyCeilDiv(n_students, cap)

\* the loop over range(n_mappen), from m on; it ends where build_mappe_sheet raises
RECURSIVE MappenLoop(_, _, _, _, _)
MappenLoop(roster, cfg, cap, n_mappen, m) ==
    IF m >= n_mappen THEN [mappen |-> <<>>, raised |-> FALSE]
    ELSE LET mappe_nr == m + 1
             start_idx == m * cap
             end_idx == Min(start_idx + cap, Len(roster))
             sheet == build_mappe_sheet(cfg, Slice(roster, start_idx, end_idx), mappe_nr)
         IN  IF sheet.raised THEN [mappen |-> <<sheet>>, raised |-> TRUE]
             ELSE LET rest == MappenLoop(roster, cfg, cap, n_mappen, m + 1)
                  IN  [mappen |-> <<sheet>> \o rest.mappen, raised |-> rest.raised]

\* generate_excel(students, aufgaben, studis_pro_mappe, ...): the workbook and
\* how the call ended
generate_excel(roster, cfg, cap) ==
    IF cap = 0
    THEN [wb |-> EmptyWb, outcome |-> "ZeroDivisionError"]
    ELSE LET loop == MappenLoop(roster, cfg, cap, MappenCount(Len(roster), cap), 0)
         IN  [wb |-> [studenten |-> build_studenten_sheet(roster, cap),
                      mappen |-> loop.mappen],
              outcome |-> IF loop.raised THEN "IndexError" ELSE "ok"]

---------------------------------------------------------------------------
\* Inputs of the direct calls.

\* rosters of n students; a student is known by its position in the upload
Roster(n) == [i \in 1..n |-> i]

TeilInputs == {[punkte |-> p, descriptions |-> Blanks(p)] : p \in 0..MaxPunkte}

RECURSIVE TeilSeqs(_)
TeilSeqs(k) ==
    IF k = 0 THEN {<<>>}
    ELSE {Append(ts, t) : ts \in TeilSeqs(k - 1), t \in TeilInputs}

\* the configurations of exactly n Aufgaben with at most k Teilaufgaben in all;
\* an Aufgabe may come without Teilaufgaben and a Teilaufgabe with 0 points
RECURSIVE ConfigsOf(_, _)
ConfigsOf(n, k) ==
    IF n = 0 THEN {<<>>}
    ELSE UNION {{<<[teilaufgaben |-> ts]>> \o c : ts \in TeilSeqs(j), c \in ConfigsOf(n - 1, k - j)}
                    : j \in 0..k}

ConfigInputs == UNION {ConfigsOf(n, MaxTeilaufgaben) : n \in 1..MaxAufgaben}

\* build_mappe_sheet called with a configuration and the students of one Mappe
BuildMappeSheet ==
    /\ outcome = "idle"
    /\ LET sheet == build_mappe_sheet(aufgaben, students, 1)
       IN  /\ wb' = [studenten |-> <<>>, mappen |-> <<sheet>>]
           /\ outcome' = IF sheet.raised THEN "IndexError" ELSE "ok"
    /\ UNCHANGED <<aufgaben, students, studis_pro_mappe>>

InitMappe ==
    /\ aufgaben \in ConfigInputs
    /\ students \in {Roster(n) : n \in 0..MaxStudentsInMappe}
    /\ studis_pro_mappe = 1
    /\ wb = EmptyWb
    /\ outcome = "idle"

SpecMappe == InitMappe /\ [][BuildMappeSheet]_vars

\* generate_excel called with a roster and a number of students per Mappe
GenerateExcel ==
    /\ outcome = "idle"
    /\ LET res == generate_excel(students, aufgaben, studis_pro_mappe)
       IN  /\ wb' = res.wb
           /\ outcome' = res.outcome
    /\ UNCHANGED <<aufgaben, students, studis_pro_mappe>>

InitExcel ==
    /\ aufgaben = InitAufgaben
    /\ students \in {Roster(n) : n \in 0..MaxStudents}
    /\ studis_pro_mappe \in (-MaxCap)..MaxCap
    /\ wb = EmptyWb
    /\ outcome = "idle"

SpecExcel == InitExcel /\ [][GenerateExcel]_vars

---------------------------------------------------------------------------
\* Reading the model's results.

\* the configurations the editor hands over: at least one Aufgabe, every
\* Aufgabe with at least one Teilaufgabe, every point count at least 1
ValidConfig(cfg) ==
    /\ Len(cfg) >= 1
    /\ \A a \in 1..Len(cfg) :
        /\ Len(cfg[a].teilaufgaben) >= 1
        /\ \A t \in 1..Len(cfg[a].teilaufgaben) : cfg[a].teilaufgaben[t].punkte >= 1

Range(s) == {s[i] : i \in 1..Len(s)}

\* the index of a column from its letters (A -> 1, Z -> 26, AA -> 27)
LetterIndex(l) == CHOOSE i \in 1..AlphabetLen : Uppercase[i] = l
RECURSIVE ColumnIndex(_)
ColumnIndex(letters) ==
    IF letters = <<>> THEN 0
    ELSE AlphabetLen * ColumnIndex(SubSeq(letters, 1, Len(letters) - 1))
         + LetterIndex(letters[Len(letters)])

\* the columns and the rows a reference c1r1:c2r2 covers: a spreadsheet reads
\* the two corners in either order
RefCols(f) == Min(ColumnIndex(f.c1), ColumnIndex(f.c2))..Max(ColumnIndex(f.c1), ColumnIndex(f.c2))
RefRows(f) == Min(f.r1, f.r2)..Max(f.r1, f.r2)

\* the cell of a sheet at (r, c): what the last write to it left there
Written(sheet, r, c) == {i \in 1..Len(sheet.writes) : sheet.writes[i].row = r /\ sheet.writes[i].col = c}
HasCell(sheet, r, c) == Written(sheet, r, c) # {}
CellAt(sheet, r, c) ==
    LET W == Written(sheet, r, c)
    IN  sheet.writes[CHOOSE i \in W : \A j \in W : j <= i].value

\* the columns of a layout
SCols(lay) == Range(lay.s_cols)
RunCols(lay, t) == lay.teil_point_starts[t]..(lay.teil_point_starts[t] + lay.teil_punkte[t] - 1)
PointColsOf(lay) == UNION {RunCols(lay, t) : t \in 1..lay.n_teil}
SummaryCols(layouts) == UNION {{layouts[a].ss_col} \cup SCols(layouts[a]) : a \in 1..Len(layouts)}
AllPointCols(layouts) == UNION {PointColsOf(layouts[a]) : a \in 1..Len(layouts)}
\* how many columns the layout hands out: 1 + n_teil per Aufgabe, pts per Teilaufgabe
SummarySlots(cfg) == SumSeq([a \in 1..Len(cfg) |-> 1 + Len(cfg[a].teilaufgaben)])
PointSlots(cfg) ==
    SumSeq([a \in 1..Len(cfg) |->
        SumSeq([t \in 1..Len(cfg[a].teilaufgaben) |-> cfg[a].teilaufgaben[t].punkte])])

IsInterval(S) == S # {} => \E lo \in S : \E hi \in S : S = lo..hi

\* the rows of a sheet that hold task-summary formulas
DataRows(sheet) == first_data_row..(first_data_row + sheet.n_students - 1)
FormulaRows(sheet) == {MaxRow, AvgRow} \cup DataRows(sheet)

Built == outcome # "idle"
Sheets == Range(wb.mappen)

---------------------------------------------------------------------------
\* C1: for every valid configuration the columns build_mappe_sheet assigns
\* (SS, S and every point column) are pairwise distinct, and the summary
\* columns form one gapless interval, as do the point columns.
C1_ColumnsDistinctAndContiguous ==
    (Built /\ ValidConfig(aufgaben)) =>
        \A sheet \in Sheets :
            LET L == sheet.layouts
            IN  /\ Cardinality(SummaryCols(L)) = SummarySlots(aufgaben)
                /\ Cardinality(AllPointCols(L)) = PointSlots(aufgaben)
                /\ SummaryCols(L) \cap AllPointCols(L) = {}
                /\ \A a \in 1..Len(L) : L[a].ss_col \notin SCols(L[a])
                /\ IsInterval(SummaryCols(L))
                /\ IsInterval(AllPointCols(L))

\* a valid configuration with two Aufgaben, one of them with two Teilaufgaben
\* of more than one point, was laid out
C1_Witness ==
    /\ outcome = "ok" /\ ValidConfig(aufgaben) /\ Len(aufgaben) = 2
    /\ \E a \in 1..2 : /\ Len(aufgaben[a].teilaufgaben) = 2
                       /\ \A t \in 1..2 : aufgaben[a].teilaufgaben[t].punkte >= 2
    /\ Sheets # {}

\* the points of all Teilaufgaben placed before Teilaufgabe t of Aufgabe a
PointsBefore(cfg, a, t) ==
    SumSeq([i \in 1..(a - 1) |->
        SumSeq([u \in 1..Len(cfg[i].teilaufgaben) |-> cfg[i].teilaufgaben[u].punkte])])
    + SumSeq([u \in 1..(t - 1) |-> cfg[a].teilaufgaben[u].punkte])

\* C2: phase 1 places, in task order, one block per Aufgabe (SS, then one S
\* per Teilaufgabe), each block right after the previous one; phase 2 then
\* places the point runs in task and subtask order, each of length punkte; so
\* every summary column lies left of every point column.
C2_TwoPhaseOrder ==
    (Built /\ ValidConfig(aufgaben)) =>
        \A sheet \in Sheets :
            LET L == sheet.layouts
                first_point == L[Len(L)].sum_block_end + 1
            IN  /\ Len(L) = Len(aufgaben)
                /\ \A a \in 1..Len(L) :
                    /\ L[a].n_teil = Len(aufgaben[a].teilaufgaben)
                    /\ a > 1 => L[a].ss_col = L[a - 1].sum_block_end + 1
                    /\ L[a].sum_block_end = L[a].ss_col + L[a].n_teil
                    /\ \A t \in 1..L[a].n_teil :
                        /\ L[a].s_cols[t] = L[a].ss_col + t
                        /\ L[a].teil_point_starts[t] = first_point + PointsBefore(aufgaben, a, t)
                        /\ L[a].teil_punkte[t] = aufgaben[a].teilaufgaben[t].punkte
                /\ \A s \in SummaryCols(L) : \A p \in AllPointCols(L) : s < p

\* two Aufgaben with different numbers of Teilaufgaben were laid out
C2_Witness ==
    /\ outcome = "ok" /\ ValidConfig(aufgaben) /\ Len(aufgaben) = 2
    /\ Len(aufgaben[1].teilaufgaben) # Len(aufgaben[2].teilaufgaben)
    /\ Sheets # {}

\* C3: in every row that holds a task-summary formula (rows 5 and 6 and every
\* student row) the SS cell sums, at that row, from the first to the last S
\* column of its Aufgabe; the range covers exactly the S columns of that
\* Aufgabe: no point column, no SS column, no S column of another Aufgabe.
C3_TaskSumRange ==
    Built =>
        \A sheet \in Sheets :
            LET L == sheet.layouts
            IN  \A a \in 1..Len(L) : \A r \in FormulaRows(sheet) :
                    /\ (~sheet.raised) => HasCell(sheet, r, L[a].ss_col)
                    /\ HasCell(sheet, r, L[a].ss_col) =>
                        LET f == CellAt(sheet, r, L[a].ss_col)
                            cols == RefCols(f)
                        IN  /\ f.kind = "SUM"
                            /\ f.r1 = r /\ f.r2 = r
                            /\ ColumnIndex(f.c1) = L[a].s_cols[1]
                            /\ ColumnIndex(f.c2) = L[a].s_cols[L[a].n_teil]
                            /\ cols = SCols(L[a])
                            /\ cols \cap AllPointCols(L) = {}
                            /\ \A b \in 1..Len(L) :
                                /\ L[b].ss_col \notin cols
                                /\ b # a => cols \cap SCols(L[b]) = {}

\* a sheet with two Aufgaben and a student row was built
C3_Witness ==
    /\ outcome = "ok" /\ ValidConfig(aufgaben) /\ Len(aufgaben) = 2
    /\ \E sheet \in Sheets :
        /\ sheet.n_students >= 1
        /\ HasCell(sheet, first_data_row, sheet.layouts[2].ss_col)
        /\ sheet.layouts[1].n_teil = 2

---------------------------------------------------------------------------
\* the least k with k * cap >= n
CeilOf(n, cap) == CHOOSE k \in 0..n : k * cap >= n /\ (k = 0 \/ (k - 1) * cap < n)

\* C4: for a roster of n students and studis_pro_mappe >= 1, generate_excel
\* builds ceil(n / studis_pro_mappe) Mappe sheets numbered 1, 2, ... in order;
\* Mappe m holds the roster slice [(m-1)*cap, min(m*cap, n)) in roster order;
\* the sizes add up to n; every Mappe but the last is full and the last holds
\* n - (n_mappen - 1) * cap students, between 1 and cap.
C4_FolderPartition ==
    (Built /\ studis_pro_mappe >= 1) =>
        LET n == Len(students)
            cap == studis_pro_mappe
            M == wb.mappen
        IN  /\ outcome = "ok"
            /\ Len(M) = CeilOf(n, cap)
            /\ \A m \in 1..Len(M) :
                /\ M[m].mappe_nr = m
                /\ M[m].title = <<"Mappe", m>>
                /\ M[m].students = SubSeq(students, (m - 1) * cap + 1, Min(m * cap, n))
                /\ M[m].n_students = Len(M[m].students)
                /\ m < Len(M) => M[m].n_students = cap
                /\ m = Len(M) => /\ M[m].n_students = n - (Len(M) - 1) * cap
                                 /\ M[m].n_students \in 1..cap
            /\ SumSeq([m \in 1..Len(M) |-> M[m].n_students]) = n

\* a roster that does not divide evenly was split into three or more Mappen
C4_Witness ==
    /\ outcome = "ok" /\ studis_pro_mappe >= 2
    /\ Len(wb.mappen) >= 3
    /\ wb.mappen[Len(wb.mappen)].n_students < studis_pro_mappe

\* C5: from the configuration of _init_state on, after any sequence of editor
\* operations, every Teilaufgabe has len(descriptions) == punkte.
C5_DescriptionsMatchPunkte ==
    \A a \in 1..Len(aufgaben) : \A t \in 1..Len(aufgaben[a].teilaufgaben) :
        Len(aufgaben[a].teilaufgaben[t].descriptions) = aufgaben[a].teilaufgaben[t].punkte

\* a Teilaufgabe was shrunk below the default and kept a description text
C5_Witness ==
    \E a \in 1..Len(aufgaben) : \E t \in 1..Len(aufgaben[a].teilaufgaben) :
        LET ta == aufgaben[a].teilaufgaben[t]
        IN  /\ ta.punkte < DefaultPunkte
            /\ \E p \in 1..Len(ta.descriptions) : ta.descriptions[p] # ""

\* at least one Aufgabe, every Aufgabe with at least one Teilaufgabe
NonEmptyConfig(cfg) ==
    /\ Len(cfg) >= 1
    /\ \A a \in 1..Len(cfg) : Len(cfg[a].teilaufgaben) >= 1

\* C6: from the initial configuration on, after any sequence of add and
\* remove calls with indices in range, there is at least one Aufgabe and every
\* Aufgabe has at least one Teilaufgabe; removing the only Aufgabe, or the
\* only Teilaufgabe of an Aufgabe, leaves the configuration unchanged.
C6_NeverEmpty ==
    /\ NonEmptyConfig(aufgaben)
    /\ \A idx \in AufgabeIdx :
        /\ NonEmptyConfig(RemoveAufgabeResult(aufgaben, idx))
        /\ Len(aufgaben) = 1 => RemoveAufgabeResult(aufgaben, idx) = aufgaben
    /\ \A a_idx \in AufgabeIdx : \A t_idx \in TeilIdx(a_idx) :
        /\ NonEmptyConfig(RemoveTeilaufgabeResult(aufgaben, a_idx, t_idx))
        /\ Len(aufgaben[a_idx + 1].teilaufgaben) = 1 =>
               RemoveTeilaufgabeResult(aufgaben, a_idx, t_idx) = aufgaben

\* removes have brought the configuration down to one Aufgabe with one Teilaufgabe
C6_Witness ==
    /\ Len(aufgaben) = 1
    /\ Len(aufgaben[1].teilaufgaben) = 1

---------------------------------------------------------------------------
\* the columns of the cells of a sheet that belong to no Aufgabe: the
\* identity block to the left of the layout
LayoutCols(L) == SummaryCols(L) \cup AllPointCols(L)
IdentityCols(sheet) ==
    {sheet.writes[i].col : i \in 1..Len(sheet.writes)} \ LayoutCols(sheet.layouts)

\* C7 as claimed: six leading columns 1-6 are reserved, the first SS column is
\* the first column after them, and no summary or point column lies in 1..6.
C7_SixReservedColumns ==
    (Built /\ ValidConfig(aufgaben)) =>
        \A sheet \in Sheets :
            /\ sheet.layouts[1].ss_col = 6 + 1
            /\ LayoutCols(sheet.layouts) \cap (1..6) = {}

\* C7, amended: five leading columns 1-5 (A-E) are reserved for the identity
\* fields, the first SS column is column 6 (F), the first column after them,
\* and no summary or point column lies in 1..5.
C7_FiveReservedColumns ==
    Built =>
        \A sheet \in Sheets :
            /\ IdentityCols(sheet) = 1..5
            /\ sheet.layouts[1].ss_col = 5 + 1
            /\ LayoutCols(sheet.layouts) \cap (1..5) = {}
            /\ \A c \in LayoutCols(sheet.layouts) : c >= sheet.layouts[1].ss_col

\* a sheet with student rows and point columns was built
C7_Witness ==
    /\ outcome = "ok" /\ ValidConfig(aufgaben)
    /\ \E sheet \in Sheets :
        /\ sheet.n_students >= 1
        /\ HasCell(sheet, HeaderRow, sheet.layouts[1].ss_col)
        /\ AllPointCols(sheet.layouts) # {}

\* C8: a configuration with an Aufgabe without Teilaufgaben, or a Teilaufgabe
\* with punkte < 1, makes the layout computation fail with ConfigurationError
\* and leaves no layout or sheet content behind.
C8_InvalidConfigRejected ==
    (Built /\ ~ValidConfig(aufgaben)) =>
        /\ outcome = "ConfigurationError"
        /\ \A sheet \in Sheets : sheet.writes = <<>>

\* C9: generate_excel with studis_pro_mappe < 1 fails with ConfigurationError;
\* it returns no workbook and never ends with zero Mappen silently.
C9_CapacityRejected ==
    (Built /\ studis_pro_mappe < 1 /\ students # <<>>) =>
        /\ outcome = "ConfigurationError"
        /\ wb = EmptyWb

\* C10: the row 6 cell of every point column averages that same column over
\* exactly the student rows 7 .. 7 + n_students - 1, guarded to give a blank
\* instead of an error; with no students the range covers no row, and it never
\* covers the header, max-points or average row.
C10_AverageOverStudentRows ==
    (Built /\ ValidConfig(aufgaben)) =>
        \A sheet \in Sheets :
            \A pc \in AllPointCols(sheet.layouts) :
                /\ HasCell(sheet, AvgRow, pc)
                /\ LET f == CellAt(sheet, AvgRow, pc)
                   IN  /\ f.kind = "IFERROR(AVERAGE)"
                       /\ f.otherwise = ""
                       /\ ColumnIndex(f.c1) = pc /\ ColumnIndex(f.c2) = pc
                       /\ f.r1 = first_data_row
                       /\ f.r2 = first_data_row + sheet.n_students - 1
                       /\ RefRows(f) = DataRows(sheet)
                       /\ RefRows(f) \cap {HeaderRow, MaxRow, AvgRow} = {}

---------------------------------------------------------------------------
\* C11: in every row that holds a subtask-summary formula (rows 5 and 6 and
\* every student row) the S cell sums, at that row, from run_start to
\* run_start + punkte - 1; the range covers exactly the point columns of that
\* Teilaufgabe: no summary column, no point column of another Teilaufgabe,
\* and every point column lies in the range of exactly one Teilaufgabe.
C11_SubtaskSumRange ==
    (Built /\ ValidConfig(aufgaben)) =>
        \A sheet \in Sheets :
            LET L == sheet.layouts
                Teile == {at \in (1..Len(L)) \X (1..MaxTeilaufgaben) : at[2] <= L[at[1]].n_teil}
                SRange(r) == {<<at, RefCols(CellAt(sheet, r, L[at[1]].s_cols[at[2]]))>> : at \in Teile}
            IN  \A r \in FormulaRows(sheet) :
                /\ \A a \in 1..Len(L) : \A t \in 1..L[a].n_teil :
                    /\ HasCell(sheet, r, L[a].s_cols[t])
                    /\ LET f == CellAt(sheet, r, L[a].s_cols[t])
                           cols == RefCols(f)
                           last == ColumnIndex(f.c2)
                       IN  /\ f.kind = "SUM"
                           /\ f.r1 = r /\ f.r2 = r
                           /\ ColumnIndex(f.c1) = L[a].teil_point_starts[t]
                           /\ last = L[a].teil_point_starts[t] + L[a].teil_punkte[t] - 1
                           /\ last = L[a].teil_point_starts[t]
                                      + aufgaben[a].teilaufgaben[t].punkte - 1
                           /\ cols = RunCols(L[a], t)
                           /\ Cardinality(cols) = aufgaben[a].teilaufgaben[t].punkte
                           /\ cols \cap SummaryCols(L) = {}
                           /\ \A b \in 1..Len(L) : \A u \in 1..L[b].n_teil :
                                <<b, u>> # <<a, t>> => cols \cap RunCols(L[b], u) = {}
                /\ LET ranges == SRange(r)
                   IN  \A pc \in AllPointCols(L) :
                           Cardinality({ar \in ranges : pc \in ar[2]}) = 1

\* a sheet with a student row and two Teilaufgaben of several points each,
\* in different Aufgaben or the same, was built
C11_Witness ==
    /\ outcome = "ok" /\ ValidConfig(aufgaben)
    /\ TeilCount(aufgaben) >= 2
    /\ \A a \in 1..Len(aufgaben) : \A t \in 1..Len(aufgaben[a].teilaufgaben) :
        aufgaben[a].teilaufgaben[t].punkte >= 2
    /\ \E sheet \in Sheets :
        /\ sheet.n_students >= 1
        /\ HasCell(sheet, first_data_row, sheet.layouts[1].s_cols[1])

---------------------------------------------------------------------------
\* C12: _sync_descriptions(a, t, k) on a Teilaufgabe whose descriptions d have
\* length n sets punkte to k and descriptions to d followed by k - n empty
\* strings when k > n, to the first k entries of d when k < n, and to d when
\* k = n; the first min(n, k) entries keep their order, and no other
\* Teilaufgabe or Aufgabe changes.
C12_SyncDescriptions ==
    \A a_idx \in AufgabeIdx : \A t_idx \in TeilIdx(a_idx) : \A k \in MinPunkte..MaxPunkte :
        LET d == aufgaben[a_idx + 1].teilaufgaben[t_idx + 1].descriptions
            n == Len(d)
            res == SyncDescriptionsResult(aufgaben, a_idx, t_idx, k)
            ta == res[a_idx + 1].teilaufgaben[t_idx + 1]
        IN  /\ ta.punkte = k
            /\ DOMAIN ta = {"punkte", "descriptions"}
            /\ Len(ta.descriptions) = (IF k = n THEN n ELSE k)
            /\ \A i \in 1..Min(n, k) : ta.descriptions[i] = d[i]
            /\ \A i \in (n + 1)..k : ta.descriptions[i] = ""
            /\ k = n => ta.descriptions = d
            /\ Len(res) = Len(aufgaben)
            /\ \A b \in 1..Len(aufgaben) :
                /\ DOMAIN res[b] = DOMAIN aufgaben[b]
                /\ Len(res[b].teilaufgaben) = Len(aufgaben[b].teilaufgaben)
                /\ \A u \in 1..Len(aufgaben[b].teilaufgaben) :
                    <<b, u>> # <<a_idx + 1, t_idx + 1>> =>
                        res[b].teilaufgaben[u] = aufgaben[b].teilaufgaben[u]

\* a Teilaufgabe was cut down to a single point and kept its first text,
\* next to a Teilaufgabe that still has the default
C12_Witness ==
    \E a \in 1..Len(aufgaben) : \E t \in 1..Len(aufgaben[a].teilaufgaben) :
    \E b \in 1..Len(aufgaben) : \E u \in 1..Len(aufgaben[b].teilaufgaben) :
        /\ <<a, t>> # <<b, u>>
        /\ aufgaben[a].teilaufgaben[t] = [punkte |-> MinPunkte, descriptions |-> <<"x">>]
        /\ aufgaben[b].teilaufgaben[u] = NewTeilaufgabe

---------------------------------------------------------------------------
\* where a student's identity cells stand in the Mappe sheets: <<sheet, row>>
StudentPlaces(student) ==
    UNION {{<<m, r>> : r \in {wb.mappen[m].writes[i].row : i \in 1..Len(wb.mappen[m].writes)}} :
              m \in 1..Len(wb.mappen)} \cap
    {pl \in (1..Len(wb.mappen)) \X Int :
        \E c \in 2..4 :
            /\ HasCell(wb.mappen[pl[1]], pl[2], c)
            /\ CellAt(wb.mappen[pl[1]], pl[2], c).kind = "student"
            /\ CellAt(wb.mappen[pl[1]], pl[2], c).student = student}

\* C13: for every capacity >= 1 and every roster index i the overview row of
\* student i records Mappe f = i div cap + 1, Stelle s = i mod cap and the code
\* "f_s", and that student stands on sheet "Mappe f" in data row 7 + s with
\* Nr = s; every student is on exactly one Mappe sheet, and the
\* (Mappe, Stelle) pairs of the overview are pairwise distinct.
C13_OverviewAgreesWithMappen ==
    (Built /\ studis_pro_mappe >= 1) =>
        LET n == Len(students)
            cap == studis_pro_mappe
            O == wb.studenten
            M == wb.mappen
        IN  /\ outcome = "ok"
            /\ Len(O) = n
            /\ \A i \in 0..(n - 1) :
                LET f == i \div cap + 1
                    s == i % cap
                    r == first_data_row + s
                IN  /\ O[i + 1].row = i + 2
                    /\ O[i + 1].mappe = f
                    /\ O[i + 1].stelle = s
                    /\ O[i + 1].code = <<f, "_", s>>
                    /\ O[i + 1].student = students[i + 1]
                    /\ f \in 1..Len(M)
                    /\ M[f].title = <<"Mappe", f>>
                    /\ HasCell(M[f], r, 1) /\ CellAt(M[f], r, 1) = NumCell(s)
                    /\ HasCell(M[f], r, 2)
                    /\ CellAt(M[f], r, 2) = StudentCell(students[i + 1], "Matr-Nr")
                    /\ HasCell(M[f], r, 3)
                    /\ CellAt(M[f], r, 3) = StudentCell(students[i + 1], "Nachname")
                    /\ HasCell(M[f], r, 4)
                    /\ CellAt(M[f], r, 4) = StudentCell(students[i + 1], "Vorname")
                    /\ StudentPlaces(students[i + 1]) = {<<f, r>>}
            /\ \A i \in 1..n : \A j \in 1..n :
                i # j => <<O[i].mappe, O[i].stelle>> # <<O[j].mappe, O[j].stelle>>

\* a student beyond the first Mappe, not in its first Stelle, is listed in the
\* overview and stands on its Mappe sheet
C13_Witness ==
    /\ outcome = "ok" /\ studis_pro_mappe >= 2
    /\ \E i \in 1..Len(wb.studenten) :
        /\ wb.studenten[i].mappe >= 2
        /\ wb.studenten[i].stelle >= 1
        /\ StudentPlaces(wb.studenten[i].student) # {}

---------------------------------------------------------------------------
\* What a spreadsheet shows for a cell: a number is itself, a SUM is the sum
\* of what the cells of its range show, text and blank cells count as 0.
\* Row 5 nests SUMs two deep (SS over S over points), hence three levels.
RECURSIVE RowSum(_, _, _, _, _)
RowSum(V(_, _, _), sheet, r, c, n) ==
    IF n <= 0 THEN 0 ELSE V(sheet, r, c) + RowSum(V, sheet, r, c + 1, n - 1)

RECURSIVE BlockSum(_, _, _, _, _, _)
BlockSum(V(_, _, _), sheet, r, m, c, n) ==
    IF m <= 0 THEN 0 ELSE RowSum(V, sheet, r, c, n) + BlockSum(V, sheet, r + 1, m - 1, c, n)

RangeSum(V(_, _, _), sheet, f) ==
    BlockSum(V, sheet, Min(f.r1, f.r2), Cardinality(RefRows(f)),
             Min(ColumnIndex(f.c1), ColumnIndex(f.c2)), Cardinality(RefCols(f)))

Shown(V(_, _, _), sheet, r, c) ==
    IF ~HasCell(sheet, r, c) THEN 0
    ELSE LET v == CellAt(sheet, r, c)
         IN  IF v.kind = "number" THEN v.number
             ELSE IF v.kind = "SUM" THEN RangeSum(V, sheet, v)
             ELSE 0

Value0(sheet, r, c) ==
    IF ~HasCell(sheet, r, c) THEN 0
    ELSE LET v == CellAt(sheet, r, c)
         IN  IF v.kind = "number" THEN v.number ELSE 0
Value1(sheet, r, c) == Shown(Value0, sheet, r, c)
Value2(sheet, r, c) == Shown(Value1, sheet, r, c)

\* C14: in row 5 as written every point column holds the literal 1, so the S
\* cell of a Teilaufgabe shows its punkte and the SS cell of an Aufgabe shows
\* the sum of the punkte of its own Teilaufgaben; the SS values of row 5 add
\* up to total_points, the Gesamtpunkte shown before generation.
C14_MaxRowEvaluates ==
    (Built /\ ValidConfig(aufgaben)) =>
        \A sheet \in Sheets :
            LET L == sheet.layouts
            IN  /\ \A pc \in AllPointCols(L) :
                    /\ HasCell(sheet, MaxRow, pc)
                    /\ CellAt(sheet, MaxRow, pc) = NumCell(1)
                /\ \A a \in 1..Len(L) :
                    /\ \A t \in 1..L[a].n_teil :
                        Value1(sheet, MaxRow, L[a].s_cols[t]) = aufgaben[a].teilaufgaben[t].punkte
                    /\ Value2(sheet, MaxRow, L[a].ss_col) =
                        SumSeq([t \in 1..Len(aufgaben[a].teilaufgaben) |->
                                    aufgaben[a].teilaufgaben[t].punkte])
                /\ SumSeq([a \in 1..Len(L) |-> Value2(sheet, MaxRow, L[a].ss_col)])
                     = total_points(aufgaben)

\* row 5 was written for two Aufgaben whose SS cells show different sums
C14_Witness ==
    /\ outcome = "ok" /\ ValidConfig(aufgaben) /\ Len(aufgaben) = 2
    /\ \E sheet \in Sheets :
        /\ Value2(sheet, MaxRow, sheet.layouts[1].ss_col) >= 2
        /\ Value2(sheet, MaxRow, sheet.layouts[1].ss_col)
             # Value2(sheet, MaxRow, sheet.layouts[2].ss_col)
        /\ total_points(aufgaben) >= 3

====
